---- MODULE Spec2Model ----
(***************************************************************************)
(* Reactive tabu search of Exercise2 (TSPSolver).  One solver object, the  *)
(* calls of solveWithTabuSearch made on it, and every step of a run: the   *)
(* main loop, the intensification inner loop and the diversification       *)
(* burst.  Costs are fixed-point numbers counted in hundredths (the unit   *)
(* of IMPROVEMENT_THRESHOLD).  Vectors are sequences read through At and   *)
(* written through Put with the 0-based indices of the code.               *)
(* The statistics containers move_history and search_history are written   *)
(* but never read by the search and are left out.                          *)
(***************************************************************************)
EXTENDS Integers, Sequences, FiniteSets, TLC

VARIABLES
    pc,                              \* "idle" | "loop" | "react" | "intensify" | "done" | "failed"
    tsp, initSol, bestSol,           \* arguments of solveWithTabuSearch
    tabu_tenure, max_iterations,     \* TSPSolver core parameters
    tabu_list, frequency_matrix,     \* TSPSolver memory structures
    iterations_without_improvement, best_known_value,
    in_intensification_phase, best_intensification_value,
    iteration, stop, currSol, currValue, bestValue,   \* locals of solveWithTabuSearch
    intens,                          \* locals of intensifySearch
    runs, applied, sentinelStop, justRecorded, minEndValue,
    trace, choices, prevRun, configured, record_log,
    entryTenure                      \* history of the calls, for the properties

solver == <<tabu_tenure, max_iterations, tabu_list, frequency_matrix,
            iterations_without_improvement, best_known_value,
            in_intensification_phase, best_intensification_value>>
locals == <<iteration, stop, currSol, currValue, bestValue, intens>>
history == <<runs, applied, sentinelStop, justRecorded, minEndValue,
             trace, choices, prevRun, configured, record_log, entryTenure>>
vars == <<pc, tsp, initSol, bestSol, solver, locals, history>>

----------------------------------------------------------------------------
(* Program constants *)

MAX_ITERATIONS_WITHOUT_IMPROVEMENT == 100
INTENSIFICATION_ITERATIONS == 50
IMPROVEMENT_THRESHOLD == 1
min_tenure == 5
max_tenure == 20
DefaultTenure == 7
DefaultMaxIterations == 1000
\* tsp.infinite (1e10) and std::numeric_limits<double>::max(): both exceed every
\* cost the bounded instances can produce; scaled to fit 32-bit integers.
infinite == 1000000000
DBL_MAX == 2000000000

----------------------------------------------------------------------------
(* Bounds of the checked inputs *)

MaxRuns == 2
MaxRand == 1
ShortRun == 2
ScenarioRun == 50
LongRun == 60

RandValues == 0..MaxRand

\* vec[k] and vec[k] = v of a std::vector, k counted from 0.
At(vec, k) == vec[k + 1]
Put(vec, k, v) == [vec EXCEPT ![k + 1] = v]
Size(vec) == Len(vec)

TSP(rows) == [n |-> Len(rows), cost |-> rows, infinite |-> infinite]

\* tsp.cost[from][to]
Cost(t, from, to) == At(At(t.cost, from), to)

\* The 4-node scenario of the specification (costs 1 and 9).
Scenario4 ==
    TSP(<< <<0, 100, 900, 900>>,
           <<100, 0, 100, 900>>,
           <<900, 100, 0, 100>>,
           <<900, 900, 100, 0>> >>)

\* All costs between distinct nodes equal, 6 nodes.
Uniform6 ==
    TSP(<< <<0, 100, 100, 100, 100, 100>>,
           <<100, 0, 100, 100, 100, 100>>,
           <<100, 100, 0, 100, 100, 100>>,
           <<100, 100, 100, 0, 100, 100>>,
           <<100, 100, 100, 100, 0, 100>>,
           <<100, 100, 100, 100, 100, 0>> >>)

\* Symmetric, 5 nodes, with differences of one hundredth.
Symmetric5 ==
    TSP(<< <<0, 100, 150, 250, 101>>,
           <<100, 0, 150, 250, 100>>,
           <<150, 150, 0, 200, 101>>,
           <<250, 250, 200, 0, 300>>,
           <<101, 100, 101, 300, 0>> >>)

\* Directed costs, 4 nodes.
Asymmetric4 ==
    TSP(<< <<0, 100, 500, 200>>,
           <<300, 0, 100, 400>>,
           <<100, 600, 0, 100>>,
           <<200, 100, 700, 0>> >>)

\* Symmetric, 6 nodes: room for more tabu pairs than the smallest tenure.
Symmetric6 ==
    TSP(<< <<0, 200, 500, 100, 300, 100>>,
           <<200, 0, 400, 400, 400, 400>>,
           <<500, 400, 0, 200, 100, 400>>,
           <<100, 400, 200, 0, 100, 400>>,
           <<300, 400, 100, 100, 0, 400>>,
           <<100, 400, 400, 400, 400, 0>> >>)

\* Two nodes only.
Pair2 ==
    TSP(<< <<0, 100>>,
           <<100, 0>> >>)

Tenures == {0, 2, DefaultTenure}

\* Depot-anchored permutation: length n+1, depot first and last, others once.
ValidTour(sol, n) ==
    /\ Size(sol) = n + 1
    /\ At(sol, 0) = 0 /\ At(sol, n) = 0
    /\ \A v \in 1..(n - 1) : Cardinality({k \in 0..n : At(sol, k) = v}) = 1
    /\ \A k \in 1..(n - 1) : At(sol, k) \in 1..(n - 1)

\* What initRnd can leave in a TSPSolution(tsp): any order of the inner nodes.
InitialTours(n) ==
    {[k \in 1..(n + 1) |-> IF k \in 2..n THEN p[k - 1] ELSE 0] : p \in Permutations(1..(n - 1))}

\* TSPSolution::TSPSolution(tsp): 0, 1, ..., n-1, 0.
TSPSolution(n) == [k \in 1..(n + 1) |-> IF k = n + 1 THEN 0 ELSE k - 1]

\* The calls checked: an instance, the initial tours, the tenures given to
\* setTabuTenure and the caps given to setMaxIterations.
Workloads ==
    { [tsp |-> Scenario4, tours |-> InitialTours(4), tenures |-> Tenures,
       caps |-> {0, 1, ShortRun, ScenarioRun}],
      [tsp |-> Asymmetric4, tours |-> InitialTours(4), tenures |-> Tenures,
       caps |-> {0, 1, ShortRun}],
      [tsp |-> Symmetric5,
       tours |-> {s \in InitialTours(5) : At(s, 1) \in {1, 2}},
       tenures |-> {0, DefaultTenure}, caps |-> {0, 1, ShortRun}],
      [tsp |-> Uniform6, tours |-> {TSPSolution(6), <<0, 3, 1, 5, 2, 4, 0>>},
       tenures |-> {2, DefaultTenure}, caps |-> {0, LongRun}],
      [tsp |-> Symmetric6, tours |-> {TSPSolution(6)},
       tenures |-> {DefaultTenure}, caps |-> {ShortRun}],
      [tsp |-> Symmetric6, tours |-> {<<0, 3, 4, 2, 1, 5, 0>>},
       tenures |-> {2}, caps |-> {LongRun}],
      [tsp |-> Scenario4, tours |-> {<<0, 1, 1, 3, 0>>},
       tenures |-> {DefaultTenure}, caps |-> {ShortRun}],
      [tsp |-> Pair2, tours |-> {TSPSolution(2)},
       tenures |-> {DefaultTenure}, caps |-> {ShortRun}] }

\* Input the specification calls malformed: fewer than 3 nodes, or an initial
\* tour that is not a depot-anchored permutation.
Malformed(t, s) == t.n < 3 \/ ~ValidTour(s, t.n)

----------------------------------------------------------------------------
(* Pure functions of TSPSolver *)

Move(f, t, c) == [from |-> f, to |-> t, cost_change |-> c]

RECURSIVE evaluateFrom(_, _, _)
evaluateFrom(sol, t, i) ==
    IF i < Size(sol) - 1
    THEN Cost(t, At(sol, i), At(sol, i + 1)) + evaluateFrom(sol, t, i + 1)
    ELSE 0

evaluate(sol, t) == evaluateFrom(sol, t, 0)

swap(sol, x, y) == Put(Put(sol, x, At(sol, y)), y, At(sol, x))

RECURSIVE reverseLoop(_, _, _)
reverseLoop(sol, left, right) ==
    IF left < right
    THEN reverseLoop(swap(sol, left, right), left + 1, right - 1)
    ELSE sol

\* Mutation: the reversal stops one position early.
applyMove_Shorter(sol, move) == reverseLoop(sol, move.from, move.to - 1)

\* Mutation: the reversal starts one position early.
applyMove_Wider(sol, move) == reverseLoop(sol, move.from - 1, move.to)

applyMove(sol, move) == reverseLoop(sol, move.from, move.to)

\* Mutation: the delta with its sign flipped (edges added minus edges removed
\* taken the wrong way round).
calculateMoveCost_SignFlipped(t, sol, move) ==
    LET h == At(sol, move.from - 1)
        i == At(sol, move.from)
        j == At(sol, move.to)
        l == At(sol, move.to + 1)
    IN  Cost(t, h, i) + Cost(t, j, l) - Cost(t, h, j) - Cost(t, i, l)

\* Mutation: the second added edge is left out of the delta.
calculateMoveCost_OneAddedEdge(t, sol, move) ==
    LET h == At(sol, move.from - 1)
        i == At(sol, move.from)
        j == At(sol, move.to)
        l == At(sol, move.to + 1)
    IN  (0 - Cost(t, h, i)) - Cost(t, j, l) + Cost(t, h, j)

calculateMoveCost(t, sol, move) ==
    LET h == At(sol, move.from - 1)
        i == At(sol, move.from)
        j == At(sol, move.to)
        l == At(sol, move.to + 1)
    IN  (0 - Cost(t, h, i)) - Cost(t, j, l) + Cost(t, h, j) + Cost(t, i, l)

\* Mutation: the pair is matched in the recorded order only.
isTabu_Ordered(from, to, list) ==
    \E k \in 1..Len(list) : list[k][1] = from /\ list[k][2] = to

isTabu(from, to, list) ==
    \E k \in 1..Len(list) :
        \/ list[k][1] = from /\ list[k][2] = to
        \/ list[k][1] = to /\ list[k][2] = from

\* The two nested loops of findBestNeighbor, resumed at the pair (a, b).
RECURSIVE scanNeighbors(_, _, _, _, _, _)
scanNeighbors(t, sol, list, a, b, bestMove) ==
    IF ~(a < Size(sol) - 2) THEN bestMove
    ELSE IF ~(b < Size(sol) - 1) THEN scanNeighbors(t, sol, list, a + 1, a + 2, bestMove)
    ELSE IF isTabu(At(sol, a), At(sol, b), list) THEN scanNeighbors(t, sol, list, a, b + 1, bestMove)
    ELSE LET costChange == calculateMoveCost(t, sol, Move(a, b, 0))
         IN  scanNeighbors(t, sol, list, a, b + 1,
                           IF costChange < bestMove.cost_change
                           THEN Move(a, b, costChange)
                           ELSE bestMove)

\* Mutation: a candidate as good as the best so far replaces it.
RECURSIVE scanNeighbors_LastTie(_, _, _, _, _, _)
scanNeighbors_LastTie(t, sol, list, a, b, bestMove) ==
    IF ~(a < Size(sol) - 2) THEN bestMove
    ELSE IF ~(b < Size(sol) - 1) THEN scanNeighbors_LastTie(t, sol, list, a + 1, a + 2, bestMove)
    ELSE IF isTabu(At(sol, a), At(sol, b), list) THEN scanNeighbors_LastTie(t, sol, list, a, b + 1, bestMove)
    ELSE LET costChange == calculateMoveCost(t, sol, Move(a, b, 0))
         IN  scanNeighbors_LastTie(t, sol, list, a, b + 1,
                                   IF costChange <= bestMove.cost_change
                                   THEN Move(a, b, costChange)
                                   ELSE bestMove)

findBestNeighbor_LastTie(t, sol, list) ==
    scanNeighbors_LastTie(t, sol, list, 1, 2, Move(0 - 1, 0 - 1, t.infinite))

findBestNeighbor(t, sol, list) ==
    scanNeighbors(t, sol, list, 1, 2, Move(0 - 1, 0 - 1, t.infinite))

\* Mutation: pop_back instead of pop_front.
pushTabu_PopsBack(list, from, to, tenure) ==
    LET pushed == Append(list, <<from, to>>)
    IN  IF Len(pushed) > tenure THEN SubSeq(pushed, 1, Len(pushed) - 1) ELSE pushed

\* tabu_list after updateTabuList(from, to) under the given tenure.
pushTabu(list, from, to, tenure) ==
    LET pushed == Append(list, <<from, to>>)
    IN  IF Len(pushed) > tenure THEN Tail(pushed) ELSE pushed

\* Mutation: only frequency_matrix[from][to] is counted.
countMove_OneWay(freq, from, to) ==
    [freq EXCEPT ![from + 1][to + 1] = @ + 1]

\* frequency_matrix after updateTabuList(from, to).
countMove(freq, from, to) ==
    LET f1 == [freq EXCEPT ![from + 1][to + 1] = @ + 1]
    IN  [f1 EXCEPT ![to + 1][from + 1] = @ + 1]

\* Mutation: the second disjunct without its comparison.
shouldIntensify_NoCompare(current_value, best_value, stagnation) ==
    \/ current_value < best_value - IMPROVEMENT_THRESHOLD
    \/ stagnation = 0

shouldIntensify(current_value, best_value, stagnation) ==
    \/ current_value < best_value - IMPROVEMENT_THRESHOLD
    \/ (stagnation = 0 /\ current_value < best_value)

\* Mutation: only the full stagnation limit triggers diversification.
shouldDiversify_OnlyAtLimit(stagnation, tenure) ==
    stagnation >= MAX_ITERATIONS_WITHOUT_IMPROVEMENT

shouldDiversify(stagnation, tenure) ==
    \/ stagnation >= MAX_ITERATIONS_WITHOUT_IMPROVEMENT
    \/ (tenure >= max_tenure - 2 /\
        stagnation >= MAX_ITERATIONS_WITHOUT_IMPROVEMENT \div 2)

Min(x, y) == IF x < y THEN x ELSE y
Max(x, y) == IF x > y THEN x ELSE y

\* Mutation: the tenure is raised as soon as the counter reaches the half.
adjustTabuTenure_RaisesAtHalf(current_value, tenure, stagnation, known) ==
    IF current_value >= known
    THEN [tenure |-> IF stagnation + 1 >= MAX_ITERATIONS_WITHOUT_IMPROVEMENT \div 2
                     THEN Min(tenure + 2, max_tenure) ELSE tenure,
          stagnation |-> stagnation + 1,
          known |-> known]
    ELSE [tenure |-> Max(tenure - 1, min_tenure),
          stagnation |-> 0,
          known |-> current_value]

\* adjustTabuTenure: the new tenure, stagnation counter and best-known value.
adjustTabuTenure(current_value, tenure, stagnation, known) ==
    IF current_value >= known
    THEN [tenure |-> IF stagnation + 1 > MAX_ITERATIONS_WITHOUT_IMPROVEMENT \div 2
                     THEN Min(tenure + 2, max_tenure) ELSE tenure,
          stagnation |-> stagnation + 1,
          known |-> known]
    ELSE [tenure |-> Max(tenure - 1, min_tenure),
          stagnation |-> 0,
          known |-> current_value]


\* std::find over the sequence: the first position holding v, or end().
find(sol, v) ==
    LET hits == {k \in 0..(Size(sol) - 1) : At(sol, k) = v}
    IN  IF hits = {} THEN Size(sol)
        ELSE CHOOSE k \in hits : \A m \in hits : k <= m

\* The node pairs (i, j), i < j, in the order the two loops of diversifySearch
\* visit them, that were the attribute of fewer than size/4 applied moves.
RECURSIVE leastUsedFrom(_, _, _)
leastUsedFrom(freq, i, j) ==
    LET size == Size(freq)
    IN  IF ~(i < size) THEN <<>>
        ELSE IF ~(j < size) THEN leastUsedFrom(freq, i + 1, i + 2)
        ELSE IF At(At(freq, i), j) < size \div 4
             THEN <<<<i, j>>>> \o leastUsedFrom(freq, i, j + 1)
             ELSE leastUsedFrom(freq, i, j + 1)

least_used_moves(freq) == leastUsedFrom(freq, 0, 1)

erase(list, idx) == [k \in 1..(Len(list) - 1) |-> IF k <= idx THEN list[k] ELSE list[k + 1]]

\* One transposition of diversifySearch: swap the first occurrences of both nodes.
transpose(sol, pair) ==
    LET it1 == find(sol, pair[1])
        it2 == find(sol, pair[2])
    IN  IF it1 # Size(sol) /\ it2 # Size(sol) THEN swap(sol, it1, it2) ELSE sol

\* The perturbation loop of diversifySearch from its i-th pass on; rands[i + 1]
\* is what rand() returns in pass i.
RECURSIVE perturb(_, _, _, _)
perturb(sol, least, rands, i) ==
    IF i < Size(sol) \div 3 /\ least # <<>>
    THEN LET idx == rands[i + 1] % Len(least)
         IN  perturb(transpose(sol, least[idx + 1]), erase(least, idx), rands, i + 1)
    ELSE sol

diversifySearch(sol, freq, rands) == perturb(sol, least_used_moves(freq), rands, 0)

\* Mutation: the tabu list survives the diversification.
clear_KeepsEntries(list) == list

\* tabu_list.clear() at the end of diversifySearch.
clear(list) == <<>>

\* Mutation: > for >=.
budgetSpent_OffByOne(iter, cap) == iter > cap

\* The test that ends the main loop after an iteration.
budgetSpent(iter, cap) == iter >= cap

\* Mutation: the inner loop makes one pass more.
innerLoopRuns_OneMore(i, move, t) ==
    i <= INTENSIFICATION_ITERATIONS /\ ~(move.cost_change >= t.infinite)

\* The inner loop of intensifySearch makes pass i: the loop test and the break.
innerLoopRuns(i, move, t) ==
    i < INTENSIFICATION_ITERATIONS /\ ~(move.cost_change >= t.infinite)

\* Mutation: the tour on entry is always restored.
intensifyResult_AlwaysBackup(best_local, best_local_value, backup, backup_value) ==
    backup

\* The tour intensifySearch leaves in current_sol.
intensifyResult(best_local, best_local_value, backup, backup_value) ==
    IF best_local_value < backup_value THEN best_local ELSE backup

----------------------------------------------------------------------------
(* The solver object and the runs on it *)

NoIntens == [backup |-> <<>>, backup_value |-> 0, original_tenure |-> 0,
             best_local |-> <<>>, best_local_value |-> 0, i |-> 0]

NoRun == [trace |-> <<>>, choices |-> <<>>, bestSol |-> <<>>]


\* TSPSolver::TSPSolver(); best_intensification_value is left uninitialised.
Init ==
    /\ pc = "idle"
    /\ tsp = TSP(<<>>)
    /\ initSol = <<>>
    /\ bestSol = <<>>
    /\ tabu_tenure = DefaultTenure
    /\ max_iterations = DefaultMaxIterations
    /\ tabu_list = <<>>
    /\ frequency_matrix = <<>>
    /\ iterations_without_improvement = 0
    /\ best_known_value = DBL_MAX
    /\ in_intensification_phase = FALSE
    /\ best_intensification_value \in {0, DBL_MAX}
    /\ iteration = 0
    /\ stop = FALSE
    /\ currSol = <<>>
    /\ currValue = 0
    /\ bestValue = 0
    /\ intens = NoIntens
    /\ runs = 0
    /\ applied = 0
    /\ sentinelStop = FALSE
    /\ justRecorded = <<>>
    /\ minEndValue = DBL_MAX
    /\ trace = <<>>
    /\ choices = <<>>
    /\ prevRun = NoRun
    /\ configured = DefaultTenure
    /\ record_log = <<>>
    /\ entryTenure = 0

\* solveWithTabuSearch up to the first test of the loop condition.
Enter(t, s) ==
    /\ tsp' = t
    /\ initSol' = s
    /\ frequency_matrix' = [i \in 1..t.n |-> [j \in 1..t.n |-> 0]]
    /\ tabu_list' = <<>>
    /\ best_intensification_value' = DBL_MAX
    /\ iteration' = 0
    /\ stop' = FALSE
    /\ currSol' = s
    /\ bestValue' = evaluate(s, t)
    /\ currValue' = evaluate(s, t)
    /\ bestSol' = s
    /\ best_known_value' = evaluate(s, t)
    /\ intens' = NoIntens
    /\ pc' = "loop"
    /\ UNCHANGED <<iterations_without_improvement, in_intensification_phase>>
    /\ runs' = runs + 1
    /\ applied' = 0
    /\ sentinelStop' = FALSE
    /\ justRecorded' = <<>>
    /\ minEndValue' = DBL_MAX
    /\ trace' = <<<<0, evaluate(s, t), s>>>>
    /\ choices' = <<>>
    /\ record_log' = <<>>
    /\ entryTenure' = 0

\* A caller that builds the tours, configures the solver and calls it
\* (testParameterCombination, solveAndVisualize).
Call ==
    /\ pc = "idle"
    /\ \E w \in Workloads : \E s \in w.tours :
       \E tenure \in w.tenures : \E iterations \in w.caps :
          /\ tabu_tenure' = tenure
          /\ max_iterations' = iterations
          /\ configured' = tenure
          /\ Enter(w.tsp, s)
    /\ prevRun' = NoRun

\* The same solver object again (as runBenchmark reuses it): setTabuTenure
\* with the same tenure, then solveWithTabuSearch with the same arguments.
CallAgain ==
    /\ pc = "done"
    /\ runs < MaxRuns
    /\ tabu_tenure' = configured
    /\ UNCHANGED <<max_iterations, configured>>
    /\ prevRun' = [trace |-> trace, choices |-> choices, bestSol |-> bestSol]
    /\ Enter(tsp, initSol)


\* The end of a main-loop iteration: adjustTabuTenure on the value the
\* iteration ends with, the iteration count and the stop test.  tenure and
\* stagnation are the values the earlier part of the iteration left.
FinishIteration(sol, value, best, bestTour, tenure, stagnation) ==
    LET adj == adjustTabuTenure(value, tenure, stagnation, best_known_value)
    IN  /\ tabu_tenure' = adj.tenure
        /\ iterations_without_improvement' = adj.stagnation
        /\ best_known_value' = adj.known
        /\ iteration' = iteration + 1
        /\ stop' = budgetSpent(iteration + 1, max_iterations)
        /\ pc' = IF budgetSpent(iteration + 1, max_iterations) THEN "done" ELSE "loop"
        /\ minEndValue' = Min(minEndValue, evaluate(sol, tsp))
        /\ trace' = IF <<best, bestTour>> = <<trace[Len(trace)][2], trace[Len(trace)][3]>>
                     THEN trace
                     ELSE Append(trace, <<iteration, best, bestTour>>)
        /\ justRecorded' = <<>>

\* The main loop gets the sentinel: it leaves the intensification phase, or stops.
LoopSentinel ==
    /\ pc = "loop"
    /\ findBestNeighbor(tsp, currSol, tabu_list).cost_change >= tsp.infinite
    /\ IF in_intensification_phase
       THEN /\ in_intensification_phase' = FALSE
            /\ UNCHANGED <<stop, pc, sentinelStop>>
       ELSE /\ stop' = TRUE
            /\ pc' = "done"
            /\ sentinelStop' = TRUE
            /\ UNCHANGED in_intensification_phase
    /\ justRecorded' = <<>>
    /\ UNCHANGED <<tsp, initSol, bestSol, tabu_tenure, max_iterations, tabu_list,
                   frequency_matrix, iterations_without_improvement, best_known_value,
                   best_intensification_value, iteration, currSol, currValue,
                   bestValue, intens, runs, applied, minEndValue, trace, choices,
                   prevRun, configured, record_log, entryTenure>>

\* The main loop records the move's attribute, applies the move and adds its delta.
LoopMove ==
    /\ pc = "loop"
    /\ LET move == findBestNeighbor(tsp, currSol, tabu_list)
       IN  /\ ~(move.cost_change >= tsp.infinite)
           /\ tabu_list' = pushTabu(tabu_list, At(currSol, move.from), At(currSol, move.to),
                                    tabu_tenure)
           /\ frequency_matrix' = countMove(frequency_matrix, At(currSol, move.from),
                                            At(currSol, move.to))
           /\ justRecorded' = <<At(currSol, move.from), At(currSol, move.to)>>
           /\ record_log' = Append(record_log,
                                   [attr |-> {At(currSol, move.from), At(currSol, move.to)},
                                    pair |-> <<At(currSol, move.from), At(currSol, move.to)>>,
                                    tenure |-> tabu_tenure])
           /\ currSol' = applyMove(currSol, move)
           /\ currValue' = currValue + move.cost_change
    /\ applied' = applied + 1
    /\ pc' = "react"
    /\ UNCHANGED <<tsp, initSol, bestSol, tabu_tenure, max_iterations,
                   iterations_without_improvement, best_known_value,
                   in_intensification_phase, best_intensification_value, iteration,
                   stop, bestValue, intens, runs, sentinelStop, minEndValue, trace,
                   choices, prevRun, configured, entryTenure>>

\* An allocation of the iteration fails (tabu_list.push_back in updateTabuList
\* throws std::bad_alloc, leaving the list as it was): the catch clause of
\* solveWithTabuSearch returns false.
LoopFault ==
    /\ pc = "loop"
    /\ ~(findBestNeighbor(tsp, currSol, tabu_list).cost_change >= tsp.infinite)
    /\ pc' = "failed"
    /\ UNCHANGED <<tsp, initSol, bestSol, solver, locals, history>>

\* An improving iteration: the new best is kept and intensifySearch is entered.
ReactIntensify ==
    /\ pc = "react"
    /\ shouldIntensify(currValue, bestValue, iterations_without_improvement)
    /\ bestValue' = currValue
    /\ bestSol' = currSol
    /\ in_intensification_phase' = TRUE
    /\ intens' = [backup |-> currSol, backup_value |-> evaluate(currSol, tsp),
                  original_tenure |-> tabu_tenure, best_local |-> currSol,
                  best_local_value |-> evaluate(currSol, tsp), i |-> 0]
    /\ tabu_tenure' = min_tenure
    /\ entryTenure' = tabu_tenure
    /\ pc' = "intensify"
    /\ justRecorded' = <<>>
    /\ UNCHANGED <<tsp, initSol, max_iterations, tabu_list, frequency_matrix,
                   iterations_without_improvement, best_known_value,
                   best_intensification_value, iteration, stop, currSol, currValue,
                   runs, applied, sentinelStop, minEndValue, trace, choices,
                   prevRun, configured, record_log>>

\* One pass of the inner loop of intensifySearch that applies a move.
IntensifyStep ==
    /\ pc = "intensify"
    /\ LET move == findBestNeighbor(tsp, currSol, tabu_list)
           moved == applyMove(currSol, move)
           new_value == evaluate(moved, tsp)
       IN  /\ innerLoopRuns(intens.i, move, tsp)
           /\ currSol' = moved
           /\ intens' = [intens EXCEPT
                           !.best_local = IF new_value < intens.best_local_value
                                          THEN moved ELSE @,
                           !.best_local_value = IF new_value < intens.best_local_value
                                                THEN new_value ELSE @,
                           !.i = @ + 1]
           /\ tabu_list' = pushTabu(tabu_list, At(moved, move.from), At(moved, move.to),
                                    tabu_tenure)
           /\ frequency_matrix' = countMove(frequency_matrix, At(moved, move.from),
                                            At(moved, move.to))
           /\ justRecorded' = <<At(moved, move.from), At(moved, move.to)>>
           /\ record_log' = Append(record_log,
                                   [attr |-> {At(currSol, move.from), At(currSol, move.to)},
                                    pair |-> <<At(moved, move.from), At(moved, move.to)>>,
                                    tenure |-> tabu_tenure])
    /\ UNCHANGED <<pc, tsp, initSol, bestSol, tabu_tenure, max_iterations,
                   iterations_without_improvement, best_known_value,
                   in_intensification_phase, best_intensification_value, iteration,
                   stop, currValue, bestValue, runs, applied, sentinelStop,
                   minEndValue, trace, choices, prevRun, configured, entryTenure>>

\* intensifySearch returns (loop exhausted or sentinel), the current value is
\* evaluated again and the iteration ends.
IntensifyExit ==
    /\ pc = "intensify"
    /\ ~innerLoopRuns(intens.i, findBestNeighbor(tsp, currSol, tabu_list), tsp)
    /\ LET result == intensifyResult(intens.best_local, intens.best_local_value,
                                     intens.backup, intens.backup_value)
       IN  /\ currSol' = result
           /\ currValue' = evaluate(result, tsp)
           /\ best_intensification_value' =
                 IF intens.best_local_value < intens.backup_value
                    /\ intens.best_local_value < best_intensification_value
                 THEN intens.best_local_value
                 ELSE best_intensification_value
           /\ FinishIteration(result, evaluate(result, tsp), bestValue, bestSol,
                              intens.original_tenure, iterations_without_improvement)
    /\ intens' = NoIntens
    /\ UNCHANGED <<tsp, initSol, bestSol, max_iterations, tabu_list, frequency_matrix,
                   in_intensification_phase, bestValue, runs, applied, sentinelStop,
                   choices, prevRun, configured, record_log, entryTenure>>

\* A stagnating iteration: diversifySearch, the current value is evaluated
\* again and the iteration ends.
ReactDiversify ==
    /\ pc = "react"
    /\ ~shouldIntensify(currValue, bestValue, iterations_without_improvement)
    /\ shouldDiversify(iterations_without_improvement, tabu_tenure)
    /\ \E rands \in [1..(Size(currSol) \div 3) -> RandValues] :
          LET shaken == diversifySearch(currSol, frequency_matrix, rands)
          IN  /\ currSol' = shaken
              /\ currValue' = evaluate(shaken, tsp)
              /\ choices' = Append(choices, rands)
              /\ FinishIteration(shaken, evaluate(shaken, tsp), bestValue, bestSol,
                                 tabu_tenure, 0)
    /\ tabu_list' = clear(tabu_list)
    /\ UNCHANGED <<tsp, initSol, bestSol, max_iterations, frequency_matrix,
                   in_intensification_phase, best_intensification_value, bestValue,
                   intens, runs, applied, sentinelStop, prevRun, configured, record_log,
                   entryTenure>>

\* Neither phase: the iteration ends.
ReactNone ==
    /\ pc = "react"
    /\ ~shouldIntensify(currValue, bestValue, iterations_without_improvement)
    /\ ~shouldDiversify(iterations_without_improvement, tabu_tenure)
    /\ FinishIteration(currSol, currValue, bestValue, bestSol, tabu_tenure,
                       iterations_without_improvement)
    /\ UNCHANGED <<tsp, initSol, bestSol, max_iterations, tabu_list, frequency_matrix,
                   in_intensification_phase, best_intensification_value, currSol,
                   currValue, bestValue, intens, runs, applied, sentinelStop,
                   choices, prevRun, configured, record_log, entryTenure>>

Next ==
    \/ Call
    \/ CallAgain
    \/ LoopSentinel
    \/ LoopMove
    \/ LoopFault
    \/ ReactIntensify
    \/ IntensifyStep
    \/ IntensifyExit
    \/ ReactDiversify
    \/ ReactNone

Spec == Init /\ [][Next]_vars

----------------------------------------------------------------------------
(* Properties *)

Running == pc \in {"loop", "react", "intensify"}
InRun == pc # "idle"

\* The run was given well-formed input.
WellFormed == ~Malformed(tsp, initSol)

\* What solveWithTabuSearch returned: true from the end of the try block,
\* false from the catch clause.
Returned(value) ==
    \/ value /\ pc = "done"
    \/ ~value /\ pc = "failed"

\* C1: in every state of a run the current tour and the best tour are
\* depot-anchored permutations: length size+1, node 0 first and last, every
\* other node exactly once.
C1_ToursStayValid ==
    (InRun /\ WellFormed) => ValidTour(currSol, tsp.n) /\ ValidTour(bestSol, tsp.n)

\* The positions a 2-opt move may take on a tour of size+1 entries.
MovesOf(sol) ==
    {m \in (1..(Size(sol) - 2)) \X (1..(Size(sol) - 2)) : m[1] < m[2]}

\* C2: for every tour, every move (from, to) with 1 <= from < to <= size-1 and
\* every cost matrix, calculateMoveCost returns evaluate(tour after the move)
\* minus evaluate(tour before the move).
C2_DeltaIsExact ==
    (Running /\ WellFormed) =>
        \A m \in MovesOf(currSol) :
            calculateMoveCost(tsp, currSol, Move(m[1], m[2], 0))
              = evaluate(applyMove(currSol, Move(m[1], m[2], 0)), tsp)
                - evaluate(currSol, tsp)

\* C3: within one run the best value never increases from one step of the
\* search to the next.
C3_BestNeverIncreases ==
    [][(InRun /\ runs' = runs) => bestValue' <= bestValue]_vars

C3_Witness ==
    /\ pc = "loop"
    /\ iteration >= 1
    /\ bestValue < evaluate(initSol, tsp)

\* C4: when the run has returned, the best tour costs no more than any tour
\* that was the current tour at the end of a main-loop iteration.
C4_BestIsBestSeen ==
    (pc = "done" /\ WellFormed) => evaluate(bestSol, tsp) <= minEndValue

\* C5: a run that repeats the previous run's arguments, configured tenure and
\* random choices goes through the same best tours and values and returns
\* the same best tour.
C5_RunsAgree ==
    (pc = "done" /\ WellFormed /\ runs >= 2 /\ choices = prevRun.choices)
        => (trace = prevRun.trace /\ bestSol = prevRun.bestSol)

ScenarioRunDone ==
    /\ pc = "done"
    /\ tsp = Scenario4
    /\ initSol = <<0, 2, 1, 3, 0>>
    /\ configured = 2
    /\ max_iterations = ScenarioRun

\* C6 as stated: the scenario run ends with a best tour of cost 4 (400
\* hundredths) that is the cycle 0-1-2-3-0 or its reverse.
C6_ScenarioCostFour ==
    ScenarioRunDone =>
        /\ evaluate(bestSol, tsp) = 400
        /\ bestSol \in {<<0, 1, 2, 3, 0>>, <<0, 3, 2, 1, 0>>}

\* C6 amended: the scenario run ends with a best tour of cost 12 (1200
\* hundredths) that is the cycle 0-1-2-3-0 or its reverse.
C6_ScenarioCostTwelve ==
    ScenarioRunDone =>
        /\ evaluate(bestSol, tsp) = 1200
        /\ bestValue = 1200
        /\ bestSol \in {<<0, 1, 2, 3, 0>>, <<0, 3, 2, 1, 0>>}

C6_Witness == ScenarioRunDone /\ applied >= 1

\* C7: on an instance whose costs between distinct nodes are all equal, the
\* best value is the cost of the initial tour throughout the run.
C7_UniformBestConstant ==
    (InRun /\ tsp = Uniform6) => bestValue = evaluate(initSol, tsp)

\* C8: with max_iterations = 0 the run returns without applying a move, the
\* best tour is the initial tour and the best value its cost.
C8_ZeroCapReturnsInitial ==
    (pc = "done" /\ WellFormed /\ max_iterations = 0) =>
        /\ applied = 0
        /\ bestSol = initSol
        /\ bestValue = evaluate(initSol, tsp)

\* C9: every run terminates (each step of a run lowers the positive count of
\* steps left, and a run is left only by returning); with max_iterations =
\* M >= 1 the main loop applies at most M moves, and it stops before the M-th
\* only on the sentinel move.
\* The steps a run has left at most: the iterations still allowed, each
\* worth a full inner loop, plus the steps left in the current iteration.
StepsLeft ==
    (Max(max_iterations, 1) - iteration) * (INTENSIFICATION_ITERATIONS + 6)
    + (CASE pc = "loop" /\ in_intensification_phase -> INTENSIFICATION_ITERATIONS + 5
         [] pc = "loop" /\ ~in_intensification_phase -> INTENSIFICATION_ITERATIONS + 4
         [] pc = "react" -> INTENSIFICATION_ITERATIONS + 3
         [] pc = "intensify" -> INTENSIFICATION_ITERATIONS + 2 - intens.i
         [] OTHER -> 0)

C9_Terminates ==
    /\ [](max_iterations >= 1 => applied <= max_iterations)
    /\ []((pc = "done" /\ max_iterations >= 1 /\ applied < max_iterations)
            => sentinelStop)
    /\ [](Running => StepsLeft > 0)
    /\ [][Running => (StepsLeft' < StepsLeft /\ (Running' \/ pc' \in {"done", "failed"}))]_vars

C9_Witness ==
    /\ pc = "done"
    /\ max_iterations = ShortRun
    /\ applied = max_iterations
    /\ ~sentinelStop

\* C10 as stated: right after updateTabuList records (a, b), isTabu(a, b) and
\* isTabu(b, a) are true, whatever the tenure.
C10_RecordedIsTabu ==
    (justRecorded # <<>> /\ WellFormed) =>
        /\ isTabu(justRecorded[1], justRecorded[2], tabu_list)
        /\ isTabu(justRecorded[2], justRecorded[1], tabu_list)

\* C10 restricted to tenures of at least 1: right after updateTabuList
\* records (a, b) under such a tenure, isTabu(a, b) and isTabu(b, a) are true.
C10_RecordedIsTabuPositiveTenure ==
    (justRecorded # <<>> /\ tabu_tenure >= 1) =>
        /\ isTabu(justRecorded[1], justRecorded[2], tabu_list)
        /\ isTabu(justRecorded[2], justRecorded[1], tabu_list)

C10_Witness ==
    /\ justRecorded # <<>>
    /\ tabu_tenure = 2
    /\ Len(tabu_list) = 2
    /\ tabu_list[2] = justRecorded

MaxOf(S) == CHOOSE x \in S : \A y \in S : y <= x

\* The attributes recorded after the k-th record of the run, and the largest
\* tenure in force at the k-th record or at any record since.
RecordedSince(k) == {record_log[m].attr : m \in (k + 1)..Len(record_log)}
TenureSince(k) == MaxOf({record_log[m].tenure : m \in k..Len(record_log)})

\* C11: once a pair was recorded and then as many further distinct pairs as
\* the tenure (the largest tenure in force since that record), without the
\* pair being recorded again, isTabu of the pair is false.
C11_EvictedAfterTenure ==
    (justRecorded # <<>> /\ WellFormed) =>
        \A k \in 1..Len(record_log) :
            (/\ Cardinality(RecordedSince(k)) >= TenureSince(k)
             /\ record_log[k].attr \notin RecordedSince(k))
                => ~isTabu(record_log[k].pair[1], record_log[k].pair[2], tabu_list)

\* C12: after every call of updateTabuList the tabu list holds at most the
\* current tenure entries.
C12_ListWithinTenure ==
    (justRecorded # <<>> /\ WellFormed) => Len(tabu_list) <= tabu_tenure

\* C13: in every state of a run the tabu tenure lies within
\* [min_tenure, max_tenure].
C13_TenureInBounds ==
    (InRun /\ WellFormed) => tabu_tenure \in min_tenure..max_tenure

\* The moves applied so far in this run, by the main loop and by
\* intensification, whose attribute is the node pair {a, b}.
AppliedWith(a, b) == Cardinality({k \in 1..Len(record_log) : record_log[k].attr = {a, b}})

NodePairs == {p \in (0..(tsp.n - 1)) \X (0..(tsp.n - 1)) : p[1] # p[2]}

\* C14: at every point of a run, for distinct nodes a and b,
\* frequency_matrix[a][b] = frequency_matrix[b][a] = the number of moves with
\* attribute {a, b} applied so far in this run; no counter decreases during
\* a run.
C14_FrequencyCountsMoves ==
    /\ []((InRun /\ WellFormed) =>
            \A p \in NodePairs :
                /\ At(At(frequency_matrix, p[1]), p[2]) = AppliedWith(p[1], p[2])
                /\ At(At(frequency_matrix, p[2]), p[1]) = AppliedWith(p[1], p[2]))
    /\ [][(InRun /\ WellFormed /\ runs' = runs) =>
            \A p \in NodePairs :
                At(At(frequency_matrix', p[1]), p[2]) >= At(At(frequency_matrix, p[1]), p[2])]_vars

C14_Witness ==
    /\ pc = "done"
    /\ WellFormed
    /\ Len(record_log) > applied
    /\ \E p \in NodePairs : At(At(frequency_matrix, p[1]), p[2]) >= 2

\* The state in which a call of solveWithTabuSearch first tests its loop
\* condition.
AtRunStart == pc = "loop" /\ iteration = 0 /\ applied = 0

\* C15: at the start of every call the search state is the initial state:
\* current tour = best tour = initial tour, current value = best value = its
\* cost, empty tabu list, stagnation counter zero, intensification flag off.
C15_StartsFromInitialState ==
    (AtRunStart /\ WellFormed) =>
        /\ currSol = initSol /\ bestSol = initSol
        /\ currValue = evaluate(initSol, tsp) /\ bestValue = evaluate(initSol, tsp)
        /\ tabu_list = <<>>
        /\ iterations_without_improvement = 0
        /\ ~in_intensification_phase

\* C16: a call with malformed input is rejected before the first iteration:
\* it returns false, applies no move, records nothing and leaves the caller's
\* best tour (a fresh TSPSolution(tsp)) as it was.
C16_MalformedRejected ==
    (InRun /\ Malformed(tsp, initSol)) =>
        /\ Returned(FALSE)
        /\ applied = 0
        /\ record_log = <<>>
        /\ bestSol = TSPSolution(tsp.n)

\* C17: a run that fails returns false and leaves in the caller's best tour
\* what it held before the call (a fresh TSPSolution(tsp)).
C17_FaultLeavesOutputUntouched ==
    (pc = "failed" /\ WellFormed) =>
        /\ Returned(FALSE)
        /\ bestSol = TSPSolution(tsp.n)

\* The candidate position pairs of the tour whose node pair is not tabu, the
\* delta of a pair and the order in which pairs are enumerated.
Candidates(sol, list) ==
    {m \in MovesOf(sol) : \A k \in 1..Len(list) :
                              {list[k][1], list[k][2]} # {At(sol, m[1]), At(sol, m[2])}}
Delta(t, sol, m) == calculateMoveCost(t, sol, Move(m[1], m[2], 0))
Before(m1, m2) == m1[1] < m2[1] \/ (m1[1] = m2[1] /\ m1[2] < m2[2])

\* C18: findBestNeighbor returns the non-tabu candidate of minimal delta, the
\* first enumerated among those of minimal delta, and the sentinel move
\* exactly when there is no non-tabu candidate.
C18_BestAdmissibleMove ==
    Running =>
        LET move == findBestNeighbor(tsp, currSol, tabu_list)
            cand == Candidates(currSol, tabu_list)
            got == <<move.from, move.to>>
        IN  /\ (move.cost_change >= tsp.infinite) <=> (cand = {})
            /\ cand = {} => move.cost_change = tsp.infinite
            /\ cand # {} =>
                  /\ got \in cand
                  /\ move.cost_change = Delta(tsp, currSol, got)
                  /\ \A c \in cand : Delta(tsp, currSol, c) >= move.cost_change
                  /\ \A c \in cand : Delta(tsp, currSol, c) = move.cost_change
                                        => ~Before(c, got)

C18_Witness ==
    /\ Running /\ WellFormed
    /\ iteration >= 1
    /\ tabu_list # <<>>
    /\ Candidates(currSol, tabu_list) # MovesOf(currSol)
    /\ LET move == findBestNeighbor(tsp, currSol, tabu_list)
       IN  \E c \in Candidates(currSol, tabu_list) :
              /\ c # <<move.from, move.to>>
              /\ Delta(tsp, currSol, c) = move.cost_change

\* C19: no move applied by the main loop or by the intensification loop has
\* its node pair in the tabu list at the moment it is selected, also when it
\* leads below the best value.
C19_AppliedMoveNotTabu ==
    [][justRecorded' # <<>> =>
          \A k \in 1..Len(tabu_list) :
              {tabu_list[k][1], tabu_list[k][2]} # {justRecorded'[1], justRecorded'[2]}]_vars

\* While a move is selected, a tabu candidate improves the current tour,
\* beats every admissible move and would lead below the best value.
C19_Witness ==
    /\ pc \in {"loop", "intensify"} /\ WellFormed
    /\ tsp = Symmetric6
    /\ record_log # <<>>
    /\ ~(findBestNeighbor(tsp, currSol, tabu_list).cost_change >= tsp.infinite)
    /\ \E m \in MovesOf(currSol) \ Candidates(currSol, tabu_list) :
          /\ evaluate(currSol, tsp) + Delta(tsp, currSol, m) < bestValue
          /\ Delta(tsp, currSol, m) < 0
          /\ Delta(tsp, currSol, m) < findBestNeighbor(tsp, currSol, tabu_list).cost_change

\* C20 as stated: every move findBestNeighbor returns has
\* 1 <= from < to <= size - 2, size being the number of nodes.
C20_MovesUpToSizeMinusTwo ==
    (Running /\ WellFormed) =>
        LET move == findBestNeighbor(tsp, currSol, tabu_list)
        IN  move.cost_change >= tsp.infinite
            \/ (1 <= move.from /\ move.from < move.to /\ move.to <= tsp.n - 2)

\* C20 amended: findBestNeighbor evaluates the position pairs (a, b) with
\* 1 <= a < b <= size - 1 (the tour has size + 1 positions): every move it
\* returns satisfies these bounds, every such non-tabu pair is compared with
\* it, and applying it leaves position 0 and the last position alone.
C20_MovesUpToSizeMinusOne ==
    (Running /\ WellFormed) =>
        LET move == findBestNeighbor(tsp, currSol, tabu_list)
            inRange == {m \in (1..(tsp.n - 1)) \X (1..(tsp.n - 1)) : m[1] < m[2]}
        IN  /\ Size(currSol) = tsp.n + 1
            /\ \A m \in inRange :
                  ~isTabu(At(currSol, m[1]), At(currSol, m[2]), tabu_list)
                      => move.cost_change <= Delta(tsp, currSol, m)
            /\ move.cost_change >= tsp.infinite
               \/ (/\ 1 <= move.from /\ move.from < move.to /\ move.to <= tsp.n - 1
                   /\ At(applyMove(currSol, move), 0) = At(currSol, 0)
                   /\ At(applyMove(currSol, move), tsp.n) = At(currSol, tsp.n))

C20_Witness ==
    /\ pc = "loop" /\ WellFormed
    /\ applied >= 1
    /\ findBestNeighbor(tsp, currSol, tabu_list).to = tsp.n - 1

\* C21: for every applied move (from, to) the pair recorded in tabu memory
\* and in frequency memory is the unordered pair of the nodes at positions
\* from and to of the tour the move is applied to, in the main loop (which
\* records before the reversal) and in intensification (which records after).
C21_RecordsMoveAttribute ==
    [][justRecorded' # <<>> =>
          LET move == findBestNeighbor(tsp, currSol, tabu_list)
              a == At(currSol, move.from)
              b == At(currSol, move.to)
          IN  /\ {justRecorded'[1], justRecorded'[2]} = {a, b}
              /\ tabu_list' = pushTabu(tabu_list, justRecorded'[1], justRecorded'[2], tabu_tenure)
              /\ At(At(frequency_matrix', a), b)
                    = At(At(frequency_matrix, a), b) + (IF a = b THEN 2 ELSE 1)
              /\ At(At(frequency_matrix', b), a) = At(At(frequency_matrix', a), b)
              /\ \A p \in NodePairs :
                    {p[1], p[2]} # {a, b} =>
                        At(At(frequency_matrix', p[1]), p[2])
                          = At(At(frequency_matrix, p[1]), p[2])]_vars

\* A record made by intensification, after records of the main loop.
C21_Witness ==
    /\ pc = "intensify" /\ WellFormed
    /\ justRecorded # <<>>
    /\ intens.i >= 2
    /\ iteration >= 1

\* What C22 says adjustTabuTenure(v) leaves from tenure t, stagnation
\* counter s and best-known value k.
AdjustedAsStated(v, t, s, k) ==
    IF v >= k
    THEN [tenure |-> IF s + 1 > 50 THEN (IF t + 2 < 20 THEN t + 2 ELSE 20) ELSE t,
          stagnation |-> s + 1,
          known |-> k]
    ELSE [tenure |-> IF t - 1 > 5 THEN t - 1 ELSE 5,
          stagnation |-> 0,
          known |-> v]

\* C22: adjustTabuTenure(v) with tenure t, stagnation counter s and
\* best-known value k: if v >= k, s becomes s+1 and, only when s+1 > 50, the
\* tenure becomes min(t+2, max_tenure), k unchanged; if v < k the tenure
\* becomes max(t-1, min_tenure), s becomes 0 and k becomes v.  Stated for the
\* function on tenures 0..max_tenure+1 and counters around the thresholds,
\* and for every iteration that ends in a run.
C22_AdjustTabuTenure ==
    /\ [](Running =>
            \A t \in 0..(max_tenure + 1) : \A s \in {0, 1, 49, 50, 51, 99, 100} :
            \A v \in {best_known_value - 1, best_known_value, best_known_value + 1} :
                adjustTabuTenure(v, t, s, best_known_value)
                  = AdjustedAsStated(v, t, s, best_known_value))
    /\ [][(iteration' = iteration + 1 /\ runs' = runs) =>
            LET t == IF pc = "intensify" THEN intens.original_tenure ELSE tabu_tenure
                s == IF choices' # choices THEN 0 ELSE iterations_without_improvement
                out == AdjustedAsStated(currValue', t, s, best_known_value)
            IN  /\ tabu_tenure' = out.tenure
                /\ iterations_without_improvement' = out.stagnation
                /\ best_known_value' = out.known]_vars

\* The tenure was raised in a long stagnation.
C22_Witness ==
    /\ pc = "loop" /\ WellFormed
    /\ iterations_without_improvement = 52
    /\ tabu_tenure = configured + 4

\* C23: a main-loop iteration records a new best tour and enters
\* intensification only if the current value is lower than the best value by
\* more than 0.01; an improvement of at most 0.01 never triggers it.
C23_IntensifyOnlyAboveThreshold ==
    [][(/\ pc = "react" /\ WellFormed
        /\ (pc' = "intensify" \/ bestValue' # bestValue \/ bestSol' # bestSol))
          => currValue < bestValue - IMPROVEMENT_THRESHOLD]_vars

\* C24: when intensifySearch returns, the current tour is the lowest-cost tour
\* seen during the inner loop if that cost is strictly below the cost of the
\* tour on entry, and otherwise exactly the tour on entry; the cost of the
\* current tour after intensification is never above its cost before.
\* best_local is the lowest-cost tour seen so far (it starts as the tour on
\* entry, is replaced only by a strictly cheaper current tour and is never
\* dearer than the current tour), backup stays the tour on entry.
C24_IntensifyKeepsBestOrRestores ==
    /\ []((pc = "intensify") =>
            /\ evaluate(intens.best_local, tsp) = intens.best_local_value
            /\ intens.best_local_value <= evaluate(currSol, tsp)
            /\ intens.best_local_value <= evaluate(intens.backup, tsp))
    /\ [][/\ (pc = "react" /\ pc' = "intensify") =>
               /\ intens'.backup = currSol
               /\ intens'.best_local = currSol
               /\ currSol' = currSol
          /\ (pc = "intensify" /\ pc' = "intensify") =>
               /\ intens'.backup = intens.backup
               /\ intens'.best_local \in {intens.best_local, currSol'}
               /\ (intens'.best_local # intens.best_local =>
                      evaluate(currSol', tsp) < intens.best_local_value)
          /\ (pc = "intensify" /\ pc' # "intensify") =>
               /\ currSol' = IF evaluate(intens.best_local, tsp) < evaluate(intens.backup, tsp)
                              THEN intens.best_local ELSE intens.backup
               /\ evaluate(currSol', tsp) <= evaluate(intens.backup, tsp)]_vars

\* An intensification has returned a tour cheaper than the one it started from.
C24_Witness ==
    /\ pc \in {"loop", "done"} /\ WellFormed
    /\ best_intensification_value = currValue
    /\ currValue < bestValue
    /\ currSol # bestSol

\* findBestNeighbor returns the sentinel in the current state.
Sentinel == findBestNeighbor(tsp, currSol, tabu_list).cost_change >= tsp.infinite

\* C25: intensifySearch runs at most 50 inner iterations with the tenure
\* forced to min_tenure, stops early when findBestNeighbor returns the
\* sentinel, and on return the tenure is the one it had on entry (the
\* iteration then ends with adjustTabuTenure applied to that tenure).
C25_IntensifyBoundedTenureRestored ==
    /\ []((pc = "intensify") => (tabu_tenure = 5 /\ intens.i \in 0..50))
    /\ [][/\ (pc = "react" /\ pc' = "intensify") =>
               (intens'.original_tenure = tabu_tenure /\ intens'.i = 0)
          /\ (pc = "intensify" /\ pc' = "intensify") =>
               /\ intens.i < 50 /\ ~Sentinel
               /\ intens'.i = intens.i + 1
               /\ intens'.original_tenure = intens.original_tenure
          /\ (pc = "intensify" /\ pc' # "intensify") =>
               /\ intens.i = 50 \/ Sentinel
               /\ tabu_tenure' = AdjustedAsStated(currValue', intens.original_tenure,
                                                   iterations_without_improvement,
                                                   best_known_value).tenure]_vars

\* The inner loop has made its 50 passes under a forced tenure.
C25_Witness ==
    /\ pc = "intensify" /\ WellFormed
    /\ intens.i = INTENSIFICATION_ITERATIONS
    /\ intens.original_tenure > min_tenure

C25_WitnessSentinel ==
    /\ pc = "intensify" /\ WellFormed
    /\ intens.i < INTENSIFICATION_ITERATIONS
    /\ Sentinel

\* C26: when the main loop receives the sentinel while the intensification
\* flag is set, the run does not stop in that iteration: the flag is cleared,
\* no move is applied, the iteration counter is not advanced and the outer
\* loop continues with the tenure it had before intensification; when the
\* flag is not set, the sentinel stops the run.
C26_SentinelEndsIntensification ==
    [][(pc = "loop" /\ Sentinel /\ WellFormed) =>
          IF in_intensification_phase
          THEN /\ pc' = "loop" /\ ~stop'
               /\ ~in_intensification_phase'
               /\ currSol' = currSol /\ applied' = applied
               /\ iteration' = iteration
               /\ tabu_tenure' = entryTenure
          ELSE pc' = "done" /\ stop']_vars

\* The part of C26 that does not speak of the tenure before intensification.
C26_SentinelHandling ==
    [][(pc = "loop" /\ Sentinel /\ WellFormed) =>
          IF in_intensification_phase
          THEN /\ pc' = "loop" /\ ~stop'
               /\ ~in_intensification_phase'
               /\ currSol' = currSol /\ applied' = applied
               /\ iteration' = iteration
               /\ tabu_tenure' = tabu_tenure
          ELSE pc' = "done" /\ stop']_vars

\* C27: in a main-loop iteration diversifySearch runs exactly when
\* intensification was not triggered in that iteration and the stagnation
\* counter is at least 100, or the tenure is at least max_tenure - 2 while
\* the stagnation counter is at least 50; intensification and
\* diversification never both run in one iteration.  Stated for the test
\* itself on counters and tenures around the thresholds, and for every
\* iteration of a run (diversifySearch draws its random numbers, which
\* choices records).
C27_DiversifyExactlyWhenStagnating ==
    /\ [](Running =>
            \A s \in {0, 49, 50, 51, 99, 100, 101} : \A t \in 0..(max_tenure + 1) :
                shouldDiversify(s, t) <=> (s >= 100 \/ (t >= 18 /\ s >= 50)))
    /\ [][(pc = "react") =>
            /\ (choices' # choices) <=>
                  /\ pc' # "intensify"
                  /\ \/ iterations_without_improvement >= 100
                     \/ (tabu_tenure >= 18 /\ iterations_without_improvement >= 50)
            /\ ~(pc' = "intensify" /\ choices' # choices)]_vars

\* A run has diversified.
C27_Witness ==
    /\ pc \in {"loop", "done"} /\ WellFormed
    /\ choices # <<>>
    /\ ~sentinelStop

\* C28: when diversifySearch returns, the tabu list is empty and the
\* stagnation counter is zero, whether or not any perturbation was applied,
\* and the frequency matrix and the tenure are unchanged by it (the
\* iteration then ends with adjustTabuTenure applied to the counter 0 and to
\* the unchanged tenure).
C28_DiversifyClearsMemory ==
    [][(pc = "react" /\ choices' # choices) =>
          LET out == AdjustedAsStated(currValue', tabu_tenure, 0, best_known_value)
          IN  /\ tabu_list' = <<>>
              /\ frequency_matrix' = frequency_matrix
              /\ iterations_without_improvement' = out.stagnation
              /\ iterations_without_improvement' \in {0, 1}
              /\ tabu_tenure' = out.tenure]_vars

\* A diversification has just cleared a list that held entries.
C28_Witness ==
    /\ pc \in {"loop", "done"} /\ WellFormed
    /\ choices # <<>>
    /\ tabu_list = <<>>
    /\ applied > 0 /\ configured > 0
    /\ iterations_without_improvement = 1

\* C29: the intensification flag is set only while the intensification
\* sub-search executes: whenever the main loop requests a move from
\* findBestNeighbor at the start of an iteration, the flag is off.
C29_FlagOffInMainLoop ==
    (pc = "loop" /\ WellFormed) => ~in_intensification_phase

\* The cost matrix is symmetric.
Symmetric(t) == \A i \in 0..(t.n - 1) : \A j \in 0..(t.n - 1) : Cost(t, i, j) = Cost(t, j, i)

\* C30: for every symmetric cost matrix, at the end of every main-loop
\* iteration the incrementally maintained current value equals
\* evaluate(current tour), including iterations in which intensification or
\* diversification changed the tour.
C30_CurrentValueIsTourCost ==
    (pc \in {"loop", "done"} /\ Symmetric(tsp)) => currValue = evaluate(currSol, tsp)

\* A run on a symmetric matrix with unequal costs, after a diversification
\* and a later iteration that only added its delta to the current value.
C30_Witness ==
    /\ pc \in {"loop", "done"} /\ WellFormed /\ Symmetric(tsp)
    /\ tsp = Symmetric6
    /\ choices # <<>>
    /\ tabu_list # <<>>
    /\ currValue # evaluate(initSol, tsp)

\* A run on a symmetric matrix in which an intensification changed the tour
\* and a later iteration only added its delta to the current value.
C30_WitnessIntensified ==
    /\ pc \in {"loop", "done"} /\ WellFormed /\ Symmetric(tsp)
    /\ entryTenure # 0
    /\ best_intensification_value < bestValue
    /\ currValue # best_intensification_value
    /\ currValue # evaluate(initSol, tsp)

====
